---- MODULE Spec2Model ----
(***************************************************************************)
(* Model of kitsune_p2p simple_bloom step_2_local_sync_inner: one pass of  *)
(* local synchronisation among the local agents of a space, followed by    *)
(* the construction of the bloom filter over the converged key set.        *)
(*                                                                         *)
(* Every external call (op-hash query, agent-info query, fetch-op-data,    *)
(* gossip) is an await: the request is put in `outstanding` by the action  *)
(* that reaches the await, and the action that takes the reply out runs    *)
(* the code up to the next await or loop head.  HashSet/HashMap iteration  *)
(* order is unspecified, so every loop picks its next element freely.      *)
(***************************************************************************)
EXTENDS Integers, Sequences, FiniteSets, TLC

\* ---- bounds of the model ------------------------------------------------
NumAgents == 3
NumHashes == 2
NumPayloads == 2
NumInfoAgents == 1
NumStamps == 1
NumSigs == 2
MaxOps == 2
MaxInfos == 2
MaxFetch == 2

Agents == 1..NumAgents
Hashes == 1..NumHashes
Payloads == 1..NumPayloads

Range(s) == {s[i] : i \in DOMAIN s}
SeqsUpTo(S, n) == UNION {[1..m -> S] : m \in 0..n}

\* ---- keys and records (MetaOpKey / MetaOpData) ---------------------------
OpKey(h) == <<"Op", h>>
AgentKey(a, t) == <<"Agent", a, t>>
OpData(h, p) == <<"Op", h, p>>
AgentData(info) == <<"Agent", info>>

IsOpKey(key) == key[1] = "Op"
IsOpData(data) == data[1] = "Op"

\* signed agent-info records: two records may agree on (agent, signed_at_ms)
\* and differ in the rest of their content
InfoRecs == [agent : 1..NumInfoAgents, signed_at_ms : 1..NumStamps, sig : 1..NumSigs]

\* MetaOpData::key()
DataKey(data) ==
    IF IsOpData(data) THEN OpKey(data[2])
    ELSE AgentKey(data[2].agent, data[2].signed_at_ms)

OpKeys == {OpKey(h) : h \in Hashes}
AgentKeys == {AgentKey(i.agent, i.signed_at_ms) : i \in InfoRecs}
AllKeys == OpKeys \cup AgentKeys

\* ---- replies of the external source --------------------------------------
Err == [ok |-> FALSE]
Ok(v) == [ok |-> TRUE, val |-> v]

OpHashesReplies == {Err} \cup {Ok(s) : s \in SeqsUpTo(Hashes, MaxOps)}
AgentInfoReplies == {Err} \cup {Ok(s) : s \in SeqsUpTo(InfoRecs, MaxInfos)}
FetchReplies == {Err} \cup {Ok(s) : s \in SeqsUpTo(Hashes \X Payloads, MaxFetch)}
GossipReplies == {Err, Ok(<<>>)}

\* ---- bloomfilter::Bloom --------------------------------------------------
Max(a, b) == IF a > b THEN a ELSE b

\* number of hash functions for a bitmap of `bits` bits holding `items` items:
\* max(1, ceil(bits / items * ln 2))
OptimalK(bits, items) == Max(1, (bits * 693 + items * 1000 - 1) \div (items * 1000))

\* Bloom::new(bitmap_size, items_count), bitmap_size in bytes
BloomNew(bitmap_size, items_count) ==
    [bits |-> bitmap_size * 8,
     k |-> OptimalK(bitmap_size * 8, items_count),
     set |-> {}]

\* Bloom::new_for_fp_rate(items_count, 0.01):
\* bitmap_size = ceil(items_count * ln(0.01) / (-8 * ln(2)^2)) bytes
BloomNewForFpRate(items_count) ==
    BloomNew((items_count * 1198 + 999) \div 1000, items_count)

KeyCode(key) == IF IsOpKey(key) THEN key[2] ELSE 50 + 10 * key[2] + key[3]
BloomHash1(key) == (KeyCode(key) * 31 + 7) % 65521
BloomHash2(key) == (KeyCode(key) * 17 + 3) % 251
BloomIdx(bloom, key, i) == (BloomHash1(key) + i * BloomHash2(key)) % bloom.bits
BloomBitsOf(bloom, key) == {BloomIdx(bloom, key, i) : i \in 0..(bloom.k - 1)}

BloomSet(bloom, key) == [bloom EXCEPT !.set = @ \cup BloomBitsOf(bloom, key)]
BloomCheck(bloom, key) == BloomBitsOf(bloom, key) \subseteq bloom.set

RECURSIVE BloomSetAll(_, _)
BloomSetAll(bloom, keys) ==
    IF keys = {} THEN bloom
    ELSE LET h == CHOOSE x \in keys : TRUE
         IN BloomSetAll(BloomSet(bloom, h), keys \ {h})

\* ---- HashMap / HashSet helpers --------------------------------------------
\* map.insert(key, data): the last insert wins
MapInsert(map, key, data) ==
    [k \in DOMAIN map \cup {key} |-> IF k = key THEN data ELSE map[k]]

\* has_hash.entry(agent).or_insert_with(HashSet::new).insert(key)
EntryInsert(has, agent, key) ==
    [a \in DOMAIN has \cup {agent} |->
        IF a = agent
        THEN (IF a \in DOMAIN has THEN has[a] ELSE {}) \cup {key}
        ELSE has[a]]

\* faulty variant: the key goes into one entry only, as if into the anchor's
InsertAllOne(has, key) ==
    IF DOMAIN has = {} THEN has
    ELSE LET a == CHOOSE x \in DOMAIN has : TRUE
         IN [has EXCEPT ![a] = @ \cup {key}]

\* for (_agent, has) in has_hash.iter_mut() { has.insert(key) }
InsertAll(has, key) == [a \in DOMAIN has |-> has[a] \cup {key}]

\* body of `for op in ops` in collect_local_ops
RECURSIVE InsertOps(_, _, _)
InsertOps(has, agent, ops) ==
    IF ops = <<>> THEN has
    ELSE InsertOps(EntryInsert(has, agent, OpKey(Head(ops))), agent, Tail(ops))

\* body of `for agent_info in agent_infos` in collect_local_agents;
\* yields <<data_map, has_hash>>
RECURSIVE InsertInfos(_, _, _)
InsertInfos(map, has, infos) ==
    IF infos = <<>> THEN <<map, has>>
    ELSE LET data == AgentData(Head(infos))
             key == DataKey(data)
         IN InsertInfos(MapInsert(map, key, data), InsertAll(has, key), Tail(infos))

EmptyMap == [k \in {} |-> 0]

\* ---- state ------------------------------------------------------------------
VARIABLES
    local_agents,     \* Inner.local_agents
    data_map,         \* Inner.data_map : key -> data
    has_hash,         \* Inner.has_hash : agent -> set of keys
    new_has_map,      \* local_sync's working copy of has_hash
    pc,               \* position of the pass
    ops_iter,         \* agents the loop of collect_local_ops has visited
    old_iter,         \* old agents the outer loop of local_sync has visited
    new_iter,         \* new agents the middle loop has visited
    key_iter,         \* keys of old_set the inner loop has visited
    old_agent,        \* loop variables of local_sync (0 before the first pick)
    new_agent,
    old_key,
    local_synced_ops,
    outstanding,      \* requests sent to evt_sender and not yet answered
    reply,            \* the reply the await of this step returned, if any
    result,           \* what step_2_local_sync_inner returned
    \* history of the pass, read by the properties only
    ops_reply,        \* agent -> what its op-hash query returned: Err, or the hashes
    requests,         \* kind of request -> number issued
    fetched,          \* hash -> number of fetch-op-data requests for it
    gossiped,         \* the deliveries requested
    pre_has,          \* has_hash as local_sync found it
    \* the admin interface task of websocket.rs
    ws_pc,            \* position of the task spawn_admin_interface_task spawned
    send_sockets,     \* its Vec of send sockets, as connection ids
    listener_handles, \* its Vec of join handles of the receive tasks
    close_requested,  \* connections whose send socket close() was called on
    awaited,          \* connections whose join handle the task has awaited
    ws_warnings,      \* failed connection attempts it has warned of
    ws_result,        \* what the task returned
    task              \* connection -> its receive task (recv_incoming_admin_msgs)

ws_vars == <<ws_pc, send_sockets, listener_handles, close_requested, awaited,
             ws_warnings, ws_result, task>>

pass_vars == <<local_agents, data_map, has_hash, new_has_map, pc, ops_iter, old_iter,
               new_iter, key_iter, old_agent, new_agent, old_key, local_synced_ops,
               outstanding, reply, result, ops_reply, requests, fetched,
               gossiped, pre_has>>

vars == <<pass_vars, ws_vars>>

loop_vars == <<ops_iter, old_iter, new_iter, key_iter, old_agent, new_agent, old_key>>
sync_vars == <<old_iter, new_iter, key_iter, old_agent, new_agent, old_key,
               local_synced_ops>>
hist_vars == <<ops_reply, requests, fetched, gossiped, pre_has>>

Kinds == {"fetch_op_hashes_for_constraints", "query_agent_info_signed",
          "fetch_op_hash_data", "gossip"}

Count(kind) == [requests EXCEPT ![kind] = @ + 1]

\* no await has just returned
NoReply == [of |-> "none"]

\* the reply r to request req, as the await returns it
Reply(req, r) == [of |-> req.kind, req |-> req, r |-> r]

\* ---- the admin interface: values ----------------------------------------------
\* the connections the listener may yield while the task runs
MaxConns == 2
\* the failed connection attempts that are told apart
MaxWarnings == 1

Conns == 1..MaxConns

\* the requests of the tests: InstallDna with a path that can be read, and with one
\* that cannot
AdminRequests == {<<"InstallDna", "readable">>, <<"InstallDna", "unreadable">>}

\* SerializedBytes of a value
Serialize(v) == <<"bytes", v>>

\* the bytes of a value that is no AdminRequest (AdmonRequest::InstallsDna)
ForeignBytes == Serialize(<<"InstallsDna", "">>)

RequestBytes == {Serialize(q) : q \in AdminRequests} \cup {ForeignBytes}

\* bytes.try_into(): the request the bytes stand for, or a deserialization error
Deserialize(bytes) ==
    IF bytes[2] \in AdminRequests THEN Ok(bytes[2]) ELSE Err

\* WebsocketMessage
RequestMsg(bytes) == <<"Request", bytes>>
SignalMsg == <<"Signal">>
CloseMsg == <<"Close">>
WsMessages == {RequestMsg(b) : b \in RequestBytes} \cup {SignalMsg, CloseMsg}

\* AdminResponse::Error(ExternalApiWireError::...)
ErrorResponse(kind) == <<"Error", kind>>
IsErrorResponse(resp) == resp[1] = "Error"
DnaInstalled == <<"DnaInstalled">>

\* api.handle_request(request) as the tests show it: bytes that do not
\* deserialize, a path that cannot be read and a store that fails to write are
\* answered with an error response; the declared result type also has Err
HandleRequest(request) ==
    {Err} \cup
    (IF ~request.ok
     THEN {Ok(ErrorResponse("Deserialization"))}
     ELSE IF request.val[2] = "unreadable"
          THEN {Ok(ErrorResponse("DnaReadError"))}
          ELSE {Ok(DnaInstalled), Ok(ErrorResponse("InternalError"))})

\* what a respond callback resolves to
RespondReplies == {Err, Ok(<<>>)}
\* what send_socket.close() resolves to
CloseReplies == {Err, Ok(<<>>)}

\* a receive task before its first message
FreshTask ==
    [pc |-> "next", msg |-> <<>>, api |-> NoReply, calls |-> 0, sent |-> <<>>,
     responded |-> NoReply, ret |-> "none"]

\* the connection has not been accepted: no task
NoTask == [FreshTask EXCEPT !.pc = "unspawned"]

\* spawn_admin_interface_task, lines 46-47: both Vecs are empty
AdminInit ==
    /\ ws_pc = "select"
    /\ send_sockets = <<>>
    /\ listener_handles = <<>>
    /\ close_requested = <<>>
    /\ awaited = <<>>
    /\ ws_warnings = 0
    /\ ws_result = "running"
    /\ task = [c \in Conns |-> NoTask]

\* step_2_local_sync_inner, lines 10-16: Inner is built with empty maps
Init ==
    /\ local_agents \in SUBSET Agents
    /\ data_map = EmptyMap
    /\ has_hash = EmptyMap
    /\ new_has_map = EmptyMap
    /\ pc = "collect_local_ops"
    /\ ops_iter = {}
    /\ old_iter = {}
    /\ new_iter = {}
    /\ key_iter = {}
    /\ old_agent = 0
    /\ new_agent = 0
    /\ old_key = <<>>
    /\ local_synced_ops = 0
    /\ outstanding = {}
    /\ reply = NoReply
    /\ result = [status |-> "running"]
    /\ ops_reply = EmptyMap
    /\ requests = [k \in Kinds |-> 0]
    /\ fetched = [h \in Hashes |-> 0]
    /\ gossiped = {}
    /\ pre_has = EmptyMap
    /\ AdminInit

\* ---- collect_local_ops ----------------------------------------------------
\* faulty variant: the queries are issued together, none is awaited before the next
CollectLocalOpsQueryAll ==
    /\ pc = "collect_local_ops"
    /\ \E agent \in local_agents \ ops_iter :
        /\ ops_iter' = ops_iter \cup {agent}
        /\ outstanding' = outstanding \cup
               {[kind |-> "fetch_op_hashes_for_constraints", agent |-> agent]}
        /\ requests' = Count("fetch_op_hashes_for_constraints")
    /\ pc' = IF local_agents \ ops_iter' = {} THEN "await_op_hashes" ELSE pc
    /\ reply' = NoReply
    /\ UNCHANGED <<local_agents, data_map, has_hash, new_has_map, sync_vars, result,
                   ops_reply, fetched, gossiped, pre_has>>
    /\ UNCHANGED ws_vars

\* the loop takes its next agent and awaits the agent's op hashes
CollectLocalOpsQuery ==
    /\ pc = "collect_local_ops"
    /\ \E agent \in local_agents \ ops_iter :
        /\ ops_iter' = ops_iter \cup {agent}
        /\ outstanding' = outstanding \cup
               {[kind |-> "fetch_op_hashes_for_constraints", agent |-> agent]}
        /\ requests' = Count("fetch_op_hashes_for_constraints")
    /\ pc' = "await_op_hashes"
    /\ reply' = NoReply
    /\ UNCHANGED <<local_agents, data_map, has_hash, new_has_map, sync_vars, result,
                   ops_reply, fetched, gossiped, pre_has>>
    /\ UNCHANGED ws_vars

\* what a reply says, order and repetition aside
Returned(r) == IF r.ok THEN Ok(Range(r.val)) ELSE Err

\* faulty variant: a failed query throws away what the earlier queries recorded
OpsRecordedOrReset(has, agent, r) ==
    IF r.ok THEN InsertOps(has, agent, r.val) ELSE EmptyMap

\* has_hash after the reply r of agent's query: an Err leaves it alone
OpsRecorded(has, agent, r) == IF r.ok THEN InsertOps(has, agent, r.val) ELSE has

CollectLocalOpsReply ==
    /\ pc = "await_op_hashes"
    /\ \E req \in outstanding, r \in OpHashesReplies :
        /\ req.kind = "fetch_op_hashes_for_constraints"
        /\ outstanding' = outstanding \ {req}
        /\ reply' = Reply(req, r)
        /\ has_hash' = OpsRecorded(has_hash, req.agent, r)
        /\ ops_reply' = MapInsert(ops_reply, req.agent, Returned(r))
    /\ pc' = "collect_local_ops"
    /\ UNCHANGED <<local_agents, data_map, new_has_map, loop_vars, local_synced_ops,
                   result, requests, fetched, gossiped, pre_has>>
    /\ UNCHANGED ws_vars

\* faulty variant: the loop is left although local agents remain to be queried
CollectLocalOpsDoneEarly ==
    /\ pc = "collect_local_ops"
    /\ pc' = "collect_local_agents"
    /\ reply' = NoReply
    /\ UNCHANGED <<local_agents, data_map, has_hash, new_has_map, loop_vars,
                   local_synced_ops, outstanding, result, hist_vars>>
    /\ UNCHANGED ws_vars

\* the loop has visited every local agent
CollectLocalOpsDone ==
    /\ pc = "collect_local_ops"
    /\ local_agents \ ops_iter = {}
    /\ pc' = "collect_local_agents"
    /\ reply' = NoReply
    /\ UNCHANGED <<local_agents, data_map, has_hash, new_has_map, loop_vars,
                   local_synced_ops, outstanding, result, hist_vars>>
    /\ UNCHANGED ws_vars

\* ---- collect_local_agents -------------------------------------------------
\* local_agents.iter().next() is any one local agent
CollectLocalAgentsQuery ==
    /\ pc = "collect_local_agents"
    /\ \E agent \in local_agents :
        /\ outstanding' = outstanding \cup
               {[kind |-> "query_agent_info_signed", agent |-> agent]}
        /\ requests' = Count("query_agent_info_signed")
    /\ pc' = "await_agent_info"
    /\ reply' = NoReply
    /\ UNCHANGED <<local_agents, data_map, has_hash, new_has_map, loop_vars,
                   local_synced_ops, result, ops_reply, fetched,
                   gossiped, pre_has>>
    /\ UNCHANGED ws_vars

\* no local agent: nothing is queried
CollectLocalAgentsNone ==
    /\ pc = "collect_local_agents"
    /\ local_agents = {}
    /\ pc' = "local_sync"
    /\ reply' = NoReply
    /\ UNCHANGED <<local_agents, data_map, has_hash, new_has_map, loop_vars,
                   local_synced_ops, outstanding, result, hist_vars>>
    /\ UNCHANGED ws_vars

\* <<data_map, has_hash>> after the reply r of the agent-info query
InfosRecorded(map, has, r) == IF r.ok THEN InsertInfos(map, has, r.val) ELSE <<map, has>>

\* faulty variant: the store is queried again after each reply
CollectLocalAgentsReplyAgain ==
    /\ pc = "await_agent_info"
    /\ \E req \in outstanding, r \in AgentInfoReplies :
        /\ req.kind = "query_agent_info_signed"
        /\ outstanding' = outstanding \ {req}
        /\ reply' = Reply(req, r)
        /\ data_map' = InfosRecorded(data_map, has_hash, r)[1]
        /\ has_hash' = InfosRecorded(data_map, has_hash, r)[2]
    /\ pc' = "collect_local_agents"
    /\ UNCHANGED <<local_agents, new_has_map, loop_vars, local_synced_ops, result,
                   ops_reply, requests, fetched, gossiped, pre_has>>
    /\ UNCHANGED ws_vars

CollectLocalAgentsReply ==
    /\ pc = "await_agent_info"
    /\ \E req \in outstanding, r \in AgentInfoReplies :
        /\ req.kind = "query_agent_info_signed"
        /\ outstanding' = outstanding \ {req}
        /\ reply' = Reply(req, r)
        /\ data_map' = InfosRecorded(data_map, has_hash, r)[1]
        /\ has_hash' = InfosRecorded(data_map, has_hash, r)[2]
    /\ pc' = "local_sync"
    /\ UNCHANGED <<local_agents, new_has_map, loop_vars, local_synced_ops, result,
                   ops_reply, requests, fetched, gossiped, pre_has>>
    /\ UNCHANGED ws_vars

\* ---- local_sync --------------------------------------------------------------
\* line 98: the working copy is cloned from has_hash, which stays as the snapshot
LocalSyncBegin ==
    /\ pc = "local_sync"
    /\ new_has_map' = has_hash
    /\ pre_has' = has_hash
    /\ pc' = "old_loop"
    /\ reply' = NoReply
    /\ UNCHANGED <<local_agents, data_map, has_hash, loop_vars, local_synced_ops,
                   outstanding, result, ops_reply, requests,
                   fetched, gossiped>>
    /\ UNCHANGED ws_vars

\* for (old_agent, old_set) in has_hash.iter()
OldLoopNext ==
    /\ pc = "old_loop"
    /\ \E a \in DOMAIN has_hash \ old_iter :
        /\ old_agent' = a
        /\ old_iter' = old_iter \cup {a}
    /\ new_iter' = {}
    /\ pc' = "new_loop"
    /\ reply' = NoReply
    /\ UNCHANGED <<local_agents, data_map, has_hash, new_has_map, ops_iter, key_iter,
                   new_agent, old_key, local_synced_ops, outstanding, result,
                   hist_vars>>
    /\ UNCHANGED ws_vars

\* lines 144-153: the loops are over, the working copy becomes has_hash
OldLoopDone ==
    /\ pc = "old_loop"
    /\ DOMAIN has_hash \ old_iter = {}
    /\ has_hash' = new_has_map
    /\ pc' = "finish"
    /\ reply' = NoReply
    /\ UNCHANGED <<local_agents, data_map, new_has_map, loop_vars, local_synced_ops,
                   outstanding, result, hist_vars>>
    /\ UNCHANGED ws_vars

\* line 111: the pair (A, A) is skipped
SamePair(old, new) == old = new

\* for (new_agent, new_set) in new_has_map.iter_mut()
NewLoopNext ==
    /\ pc = "new_loop"
    /\ \E b \in DOMAIN new_has_map \ new_iter :
        /\ new_iter' = new_iter \cup {b}
        /\ IF SamePair(old_agent, b)
           THEN UNCHANGED <<new_agent, key_iter, pc>>
           ELSE /\ new_agent' = b
                /\ key_iter' = {}
                /\ pc' = "key_loop"
    /\ reply' = NoReply
    /\ UNCHANGED <<local_agents, data_map, has_hash, new_has_map, ops_iter, old_iter,
                   old_agent, old_key, local_synced_ops, outstanding, result,
                   hist_vars>>
    /\ UNCHANGED ws_vars

NewLoopDone ==
    /\ pc = "new_loop"
    /\ DOMAIN new_has_map \ new_iter = {}
    /\ pc' = "old_loop"
    /\ reply' = NoReply
    /\ UNCHANGED <<local_agents, data_map, has_hash, new_has_map, loop_vars,
                   local_synced_ops, outstanding, result, hist_vars>>
    /\ UNCHANGED ws_vars

\* the gossip request of lines 122-130 for the record op_data
GossipReq(to, from, op_data) ==
    [kind |-> "gossip", to_agent |-> to, from_agent |-> from,
     op_hash |-> op_data[2], op_data |-> op_data[3]]

\* the delivery as the history keeps it: the request and the key it was made for
Delivery(req, key) ==
    [to_agent |-> req.to_agent, from_agent |-> req.from_agent, key |-> key,
     op_hash |-> req.op_hash, op_data |-> req.op_data]

\* the fetch request of data_map_get, lines 200-205
FetchReq(agent, key) ==
    [kind |-> "fetch_op_hash_data", agent |-> agent, op_hashes |-> <<key[2]>>]

\* faulty variant: an op key is taken as missing whether the set holds it or not
MissingOrOp(new_set, key) == key \notin new_set \/ IsOpKey(key)

\* line 115: the key is missing from the working set of new_agent
Missing(new_set, key) == key \notin new_set

\* for old_key in old_set.iter(): a key the new set holds is passed over; for a
\* missing key data_map_get is called: a hit goes on to the match of line 120,
\* a miss of an Op key awaits fetch_op_hash_data
KeyLoopNext ==
    /\ pc = "key_loop"
    /\ \E k \in has_hash[old_agent] \ key_iter :
        /\ key_iter' = key_iter \cup {k}
        /\ old_key' = k
        /\ IF ~Missing(new_has_map[new_agent], k)
           THEN UNCHANGED <<pc, local_synced_ops, outstanding, requests, fetched,
                            gossiped>>
           ELSE /\ local_synced_ops' = local_synced_ops + 1
                /\ IF k \in DOMAIN data_map
                   THEN IF IsOpData(data_map[k])
                        THEN LET req == GossipReq(new_agent, old_agent, data_map[k])
                             IN /\ outstanding' = outstanding \cup {req}
                                /\ requests' = Count("gossip")
                                /\ gossiped' = gossiped \cup {Delivery(req, k)}
                                /\ pc' = "await_gossip"
                                /\ UNCHANGED fetched
                        ELSE /\ pc' = "unreachable_local_sync"
                             /\ UNCHANGED <<outstanding, requests, fetched, gossiped>>
                   ELSE IF IsOpKey(k)
                        THEN /\ outstanding' = outstanding \cup {FetchReq(old_agent, k)}
                             /\ requests' = Count("fetch_op_hash_data")
                             /\ fetched' = [fetched EXCEPT ![k[2]] = @ + 1]
                             /\ pc' = "await_fetch"
                             /\ UNCHANGED gossiped
                        ELSE /\ pc' = "unreachable_data_map_get"
                             /\ UNCHANGED <<outstanding, requests, fetched, gossiped>>
    /\ reply' = NoReply
    /\ UNCHANGED <<local_agents, data_map, has_hash, new_has_map, ops_iter, old_iter,
                   new_iter, old_agent, new_agent, result, ops_reply,
                   pre_has>>
    /\ UNCHANGED ws_vars

\* faulty variant: when the keys of the old set are used up the scan of the
\* set starts over
KeyLoopDoneAgain ==
    /\ pc = "key_loop"
    /\ has_hash[old_agent] \ key_iter = {}
    /\ key_iter' = {}
    /\ reply' = NoReply
    /\ UNCHANGED <<local_agents, data_map, has_hash, new_has_map, pc, ops_iter,
                   old_iter, new_iter, old_agent, new_agent, old_key,
                   local_synced_ops, outstanding, result, hist_vars>>
    /\ UNCHANGED ws_vars

KeyLoopDone ==
    /\ pc = "key_loop"
    /\ has_hash[old_agent] \ key_iter = {}
    /\ pc' = "new_loop"
    /\ reply' = NoReply
    /\ UNCHANGED <<local_agents, data_map, has_hash, new_has_map, loop_vars,
                   local_synced_ops, outstanding, result, hist_vars>>
    /\ UNCHANGED ws_vars

\* faulty variant: only an empty answer is refused, the first of several ops is taken
FetchFailedIfEmpty(r) == ~r.ok \/ Len(r.val) = 0

\* data_map_get, lines 207-211: the call failed, or did not answer with one op
FetchFailed(r) == ~r.ok \/ Len(r.val) # 1

\* data_map_get, lines 213-217: the op the source answered with, as a record
FetchedData(r) == OpData(r.val[1][1], r.val[1][2])

\* the reply of fetch_op_hash_data: an error returns from the pass; one op is
\* put in data_map under the key it came with and goes on to gossip
FetchReply ==
    /\ pc = "await_fetch"
    /\ \E req \in outstanding, r \in FetchReplies :
        /\ req.kind = "fetch_op_hash_data"
        /\ reply' = Reply(req, r)
        /\ IF FetchFailed(r)
           THEN /\ outstanding' = outstanding \ {req}
                /\ result' = [status |-> "Err"]
                /\ pc' = "returned"
                /\ UNCHANGED <<data_map, requests, gossiped>>
           ELSE LET data == FetchedData(r)
                    greq == GossipReq(new_agent, old_agent, data)
                IN /\ data_map' = MapInsert(data_map, DataKey(data), data)
                   /\ outstanding' = (outstanding \ {req}) \cup {greq}
                   /\ requests' = Count("gossip")
                   /\ gossiped' = gossiped \cup {Delivery(greq, old_key)}
                   /\ pc' = "await_gossip"
                   /\ UNCHANGED result
    /\ UNCHANGED <<local_agents, has_hash, new_has_map, loop_vars, local_synced_ops,
                   ops_reply, fetched, pre_has>>
    /\ UNCHANGED ws_vars

\* faulty variant: an error of gossip is tolerated like the errors of collection
GossipFailedNever(r) == FALSE

\* line 131: an error of gossip returns from the pass
GossipFailed(r) == ~r.ok

\* faulty variant: the delivered key is not marked present
MarkPresentSkipped(new, agent, key) == new

\* line 138: new_set.insert(old_key.clone())
MarkPresent(new, agent, key) == [new EXCEPT ![agent] = @ \cup {key}]

\* faulty variant: the delivered key is marked in has_hash itself, no working copy
GossipReplyInPlace ==
    /\ pc = "await_gossip"
    /\ \E req \in outstanding, r \in GossipReplies :
        /\ req.kind = "gossip"
        /\ outstanding' = outstanding \ {req}
        /\ reply' = Reply(req, r)
        /\ IF GossipFailed(r)
           THEN /\ result' = [status |-> "Err"]
                /\ pc' = "returned"
                /\ UNCHANGED <<new_has_map, has_hash>>
           ELSE /\ new_has_map' = MarkPresent(new_has_map, new_agent, old_key)
                /\ has_hash' = MarkPresent(has_hash, new_agent, old_key)
                /\ pc' = "key_loop"
                /\ UNCHANGED result
    /\ UNCHANGED <<local_agents, data_map, loop_vars, local_synced_ops, hist_vars>>
    /\ UNCHANGED ws_vars

GossipReply ==
    /\ pc = "await_gossip"
    /\ \E req \in outstanding, r \in GossipReplies :
        /\ req.kind = "gossip"
        /\ outstanding' = outstanding \ {req}
        /\ reply' = Reply(req, r)
        /\ IF GossipFailed(r)
           THEN /\ result' = [status |-> "Err"]
                /\ pc' = "returned"
                /\ UNCHANGED new_has_map
           ELSE /\ new_has_map' = MarkPresent(new_has_map, new_agent, old_key)
                /\ pc' = "key_loop"
                /\ UNCHANGED result
    /\ UNCHANGED <<local_agents, data_map, has_hash, loop_vars, local_synced_ops,
                   hist_vars>>
    /\ UNCHANGED ws_vars

\* ---- finish -----------------------------------------------------------------
\* faulty variant: the filter is sized for the set but the keys are not set in it
FilterOfUnset(map) == BloomNewForFpRate(Cardinality(map))

\* lines 169-177: the filter built over the set taken as canonical
FilterOf(map) == BloomSetAll(BloomNewForFpRate(Cardinality(map)), map)

\* faulty variant: the filter of the empty set is saturated instead of empty
EmptyFilterSaturated == [BloomNew(1, 1) EXCEPT !.set = 0..7]

\* line 180: no entry at all
EmptyFilter == BloomNew(1, 1)

\* has_hash.into_iter().next() is any one entry
Finish ==
    /\ pc = "finish"
    /\ \/ \E a \in DOMAIN has_hash :
            result' = [status |-> "Ok", data_map |-> data_map,
                       key_set |-> has_hash[a], bloom |-> FilterOf(has_hash[a])]
       \/ /\ DOMAIN has_hash = {}
          /\ result' = [status |-> "Ok", data_map |-> data_map,
                        key_set |-> {}, bloom |-> EmptyFilter]
    /\ pc' = "returned"
    /\ reply' = NoReply
    /\ UNCHANGED <<local_agents, data_map, has_hash, new_has_map, loop_vars,
                   local_synced_ops, outstanding, hist_vars>>
    /\ UNCHANGED ws_vars

Next ==
    \/ CollectLocalOpsQuery
    \/ CollectLocalOpsReply
    \/ CollectLocalOpsDone
    \/ CollectLocalAgentsQuery
    \/ CollectLocalAgentsNone
    \/ CollectLocalAgentsReply
    \/ LocalSyncBegin
    \/ OldLoopNext
    \/ OldLoopDone
    \/ NewLoopNext
    \/ NewLoopDone
    \/ KeyLoopNext
    \/ KeyLoopDone
    \/ FetchReply
    \/ GossipReply
    \/ Finish

Spec == Init /\ [][Next]_vars

\* the largest set of local agents behaviours are checked for termination with
MaxFairAgents == 2

FairInit == Init /\ Cardinality(local_agents) <= MaxFairAgents

\* The pass is one task: the executor polls it until it completes, and every
\* request it awaits is answered, so a step that can be taken is taken.
FairSpec == FairInit /\ [][Next]_vars /\ WF_vars(Next)

\* ---- the admin interface task (websocket.rs) ----------------------------------
\* lines 54-62: the listener yields a connection: its send socket is kept and a
\* receive task is spawned for its receive socket
AdminAccept ==
    /\ ws_pc = "select"
    /\ Len(send_sockets) < MaxConns
    /\ LET c == Len(send_sockets) + 1
       IN /\ send_sockets' = Append(send_sockets, c)
          /\ listener_handles' = Append(listener_handles, c)
          /\ task' = [task EXCEPT ![c] = FreshTask]
    /\ UNCHANGED <<ws_pc, close_requested, awaited, ws_warnings, ws_result>>
    /\ UNCHANGED pass_vars

\* lines 63-65: a connection attempt failed: a warning, and the loop goes on
AdminAcceptFailed ==
    /\ ws_pc = "select"
    /\ ws_warnings < MaxWarnings
    /\ ws_warnings' = ws_warnings + 1
    /\ UNCHANGED <<ws_pc, send_sockets, listener_handles, close_requested, awaited,
                   ws_result, task>>
    /\ UNCHANGED pass_vars

\* line 51: the stop channel yields: break; line 76: the listener is dropped
AdminStop ==
    /\ ws_pc = "select"
    /\ ws_pc' = "close"
    /\ UNCHANGED <<send_sockets, listener_handles, close_requested, awaited,
                   ws_warnings, ws_result, task>>
    /\ UNCHANGED pass_vars

\* lines 67-72: the listener stream ended: break; line 76
AdminListenerNone ==
    /\ ws_pc = "select"
    /\ ws_pc' = "close"
    /\ UNCHANGED <<send_sockets, listener_handles, close_requested, awaited,
                   ws_warnings, ws_result, task>>
    /\ UNCHANGED pass_vars

\* line 81: an error of close() returns from the task
CloseFailed(r) == ~r.ok

\* lines 79-82: close() is called on the next send socket and awaited
AdminClose ==
    /\ ws_pc = "close"
    /\ Len(close_requested) < Len(send_sockets)
    /\ \E r \in CloseReplies :
        /\ close_requested' =
               Append(close_requested, send_sockets[Len(close_requested) + 1])
        /\ IF CloseFailed(r)
           THEN ws_result' = "Err" /\ ws_pc' = "done"
           ELSE UNCHANGED <<ws_result, ws_pc>>
    /\ UNCHANGED <<send_sockets, listener_handles, awaited, ws_warnings, task>>
    /\ UNCHANGED pass_vars

\* line 79: the loop over the send sockets is over
AdminCloseDone ==
    /\ ws_pc = "close"
    /\ Len(close_requested) = Len(send_sockets)
    /\ ws_pc' = "join"
    /\ UNCHANGED <<send_sockets, listener_handles, close_requested, awaited,
                   ws_warnings, ws_result, task>>
    /\ UNCHANGED pass_vars

\* lines 85-91: the next handle is awaited for at most a second: the task has
\* ended (Ok(r), r is Ok), or it has not and the timeout elapses (a warning)
AdminJoin ==
    /\ ws_pc = "join"
    /\ Len(awaited) < Len(listener_handles)
    /\ LET h == listener_handles[Len(awaited) + 1]
       IN awaited' = Append(awaited,
               <<h, IF task[h].pc = "ended" THEN "joined" ELSE "timeout">>)
    /\ UNCHANGED <<ws_pc, send_sockets, listener_handles, close_requested,
                   ws_warnings, ws_result, task>>
    /\ UNCHANGED pass_vars

\* line 92: ManagedTaskResult::Ok(())
AdminDone ==
    /\ ws_pc = "join"
    /\ Len(awaited) = Len(listener_handles)
    /\ ws_result' = "Ok"
    /\ ws_pc' = "done"
    /\ UNCHANGED <<send_sockets, listener_handles, close_requested, awaited,
                   ws_warnings, task>>
    /\ UNCHANGED pass_vars

\* ---- the receive task of a connection ----------------------------------------
\* the fields a message that arrives resets
Arrived(t, msg) ==
    [t EXCEPT !.msg = msg, !.api = NoReply, !.calls = 0, !.sent = <<>>,
              !.responded = NoReply, !.ret = "none"]

\* lines 169-170 and 225-234: recv_socket.next() yields a message. A Request goes
\* to api.handle_request; a Signal is logged and handle_incoming_message returns
\* Ok; a Close makes it return Closed, which ends the loop (line 171)
TaskNext(c) ==
    /\ task[c].pc = "next"
    /\ \E msg \in WsMessages :
        task' = [task EXCEPT ![c] =
            IF msg[1] = "Request"
            THEN [Arrived(@, msg) EXCEPT !.pc = "handle_request"]
            ELSE IF msg = SignalMsg
                 THEN [Arrived(@, msg) EXCEPT !.ret = "Ok"]
                 ELSE [Arrived(@, msg) EXCEPT !.ret = "Closed", !.pc = "ended"]]
    /\ UNCHANGED <<ws_pc, send_sockets, listener_handles, close_requested, awaited,
                   ws_warnings, ws_result>>
    /\ UNCHANGED pass_vars

\* line 169: the stream of the receive socket ended
TaskStreamEnd(c) ==
    /\ task[c].pc = "next"
    /\ task' = [task EXCEPT ![c].pc = "ended"]
    /\ UNCHANGED <<ws_pc, send_sockets, listener_handles, close_requested, awaited,
                   ws_warnings, ws_result>>
    /\ UNCHANGED pass_vars

\* faulty variant: an error response of the API is handled like its Err
ApiFailedOrErrorResponse(o) == ~o.ok \/ IsErrorResponse(o.val)

\* line 227, api.handle_request(..).await?
ApiFailed(o) == ~o.ok

\* line 227: handle_request has answered. Its Err is returned (and logged, line
\* 172); its response is serialized and respond is called with the bytes
TaskHandleRequest(c) ==
    /\ task[c].pc = "handle_request"
    /\ \E o \in HandleRequest(Deserialize(task[c].msg[2])) :
        task' = [task EXCEPT ![c] =
            IF ApiFailed(o)
            THEN [@ EXCEPT !.api = o, !.ret = "Err", !.pc = "next"]
            ELSE [@ EXCEPT !.api = o, !.calls = @ + 1, !.sent = Serialize(o.val),
                           !.pc = "respond"]]
    /\ UNCHANGED <<ws_pc, send_sockets, listener_handles, close_requested, awaited,
                   ws_warnings, ws_result>>
    /\ UNCHANGED pass_vars

\* line 227, respond(..).await?: what handle_incoming_message returns
RespondReturn(r) == IF r.ok THEN "Ok" ELSE "Err"

\* line 227: the future respond returned has resolved
TaskRespond(c) ==
    /\ task[c].pc = "respond"
    /\ \E r \in RespondReplies :
        task' = [task EXCEPT ![c] =
            [@ EXCEPT !.responded = r, !.ret = RespondReturn(r), !.pc = "next"]]
    /\ UNCHANGED <<ws_pc, send_sockets, listener_handles, close_requested, awaited,
                   ws_warnings, ws_result>>
    /\ UNCHANGED pass_vars

AdminNext ==
    \/ AdminAccept
    \/ AdminAcceptFailed
    \/ AdminStop
    \/ AdminListenerNone
    \/ AdminClose
    \/ AdminCloseDone
    \/ AdminJoin
    \/ AdminDone
    \/ \E c \in Conns : TaskNext(c)
    \/ \E c \in Conns : TaskStreamEnd(c)
    \/ \E c \in Conns : TaskHandleRequest(c)
    \/ \E c \in Conns : TaskRespond(c)

\* the admin interface alone: no pass runs
AdminStart == Init /\ local_agents = {}

AdminSpec == AdminStart /\ [][AdminNext]_vars

\* ---- properties --------------------------------------------------------------
ReturnedOk == pc = "returned" /\ result.status = "Ok"
ReturnedErr == pc = "returned" /\ result.status = "Err"

\* local_sync has returned Ok: finish is about to run or has run
LocalSyncOk == pc = "finish" \/ ReturnedOk

Union(has) == UNION {has[a] : a \in DOMAIN has}

\* C1: after local_sync returns Ok, all entries of has_hash hold the same key
\* set, whatever the number of entries and whatever they held before.
C1_EntriesSetEqual ==
    LocalSyncOk => \A a, b \in DOMAIN has_hash : has_hash[a] = has_hash[b]

\* three indexed agents with pairwise different sets have been reconciled
C1_Witness ==
    /\ pc = "finish"
    /\ Cardinality(DOMAIN pre_has) = 3
    /\ \A a, b \in DOMAIN pre_has : a # b => pre_has[a] # pre_has[b]

\* the hashes the op-hash query of agent a returned
HashesOf(a) == IF a \in DOMAIN ops_reply /\ ops_reply[a].ok THEN ops_reply[a].val ELSE {}

\* a delivery to agent b was requested for key
DeliveredTo(b, key) == \E d \in gossiped : d.to_agent = b /\ d.key = key

\* C2: after a successful pass every local agent, an agent whose query
\* returned no hashes or failed included, has every Op key any other local
\* agent's query returned: from its own query or by a delivery of this pass.
C2_AllLocalAgentsConverged ==
    ReturnedOk =>
        \A b \in local_agents : \A a \in local_agents \ {b} : \A h \in HashesOf(a) :
            h \in HashesOf(b) \/ DeliveredTo(b, OpKey(h))

\* C3: on a successful pass the key set finish returns is the union of the
\* per-agent key sets as local_sync found them: no key lost, none invented.
C3_Conservation == ReturnedOk => result.key_set = Union(pre_has)

\* a successful pass over two or more entries, none of which held the union
C3_Witness ==
    /\ ReturnedOk
    /\ Cardinality(DOMAIN pre_has) >= 2
    /\ \A a \in DOMAIN pre_has : pre_has[a] # Union(pre_has)
    /\ \E k \in Union(pre_has) : ~IsOpKey(k)

AgentInfoAnswered ==
    pc = "local_sync" /\ reply.of = "query_agent_info_signed" /\ reply.r.ok

\* C4: after collect_local_agents completes with a successful query, the key
\* set of every local agent holds the key of every record the query returned,
\* whatever collect_local_ops recorded for the agent, nothing included.
C4_AgentInfoUniversal ==
    AgentInfoAnswered =>
        \A a \in local_agents : \A i \in Range(reply.r.val) :
            a \in DOMAIN has_hash /\ DataKey(AgentData(i)) \in has_hash[a]

\* C5: every key of the key set finish returns has been set in the filter it
\* returns: the filter reports the key as a member.
C5_FilterSound ==
    ReturnedOk => \A k \in result.key_set : BloomCheck(result.bloom, k)

\* a filter over an agent-info key and an op key
C5_Witness ==
    /\ ReturnedOk
    /\ \E k \in result.key_set : IsOpKey(k)
    /\ \E k \in result.key_set : ~IsOpKey(k)

\* C6: with no local agent the pass issues no request and returns Ok with an
\* empty data map, an empty key set and a filter in which no key is set.
C6_EmptyInput ==
    local_agents = {} =>
        /\ \A k \in Kinds : requests[k] = 0
        /\ outstanding = {}
        /\ result.status # "Err"
        /\ pc = "returned" =>
            /\ result.status = "Ok"
            /\ result.data_map = EmptyMap
            /\ result.key_set = {}
            /\ result.bloom.set = {}
            /\ \A key \in AllKeys : ~BloomCheck(result.bloom, key)

C6_Witness == local_agents = {} /\ pc = "returned"

\* C7: within one pass fetch-op-data is requested at most once for any hash.
C7_FetchedAtMostOnce == \A h \in Hashes : fetched[h] <= 1

FailedReply ==
    /\ reply.of \in {"fetch_op_hash_data", "gossip"}
    /\ ~reply.r.ok

\* C8: an error of fetch-op-data or of gossip ends the pass at once: the pass
\* has returned an error that carries no data map, key set or filter, nothing
\* is outstanding, and no request is issued from then on.
C8_ErrorsAreFatal ==
    /\ [](FailedReply =>
            /\ ReturnedErr
            /\ DOMAIN result = {"status"}
            /\ outstanding = {})
    /\ [][ReturnedErr => requests' = requests /\ outstanding' = outstanding
                         /\ result' = result]_vars

\* a delivery failed after an earlier one had succeeded
C8_Witness ==
    /\ FailedReply
    /\ reply.of = "gossip"
    /\ requests["gossip"] >= 2

\* C9: a fetch-op-data answer of zero or of several results makes the pass
\* return an error; nothing is put in the data map and no delivery is made.
C9_WrongCardinalityFatal ==
    [][(/\ pc = "await_fetch"
        /\ reply'.of = "fetch_op_hash_data"
        /\ reply'.r.ok
        /\ Len(reply'.r.val) # 1)
       => /\ data_map' = data_map
          /\ gossiped' = gossiped
          /\ requests' = requests
          /\ outstanding' = {}
          /\ pc' = "returned"
          /\ result' = [status |-> "Err"]]_vars

\* the source answered a fetch with two results
C9_Witness ==
    /\ reply.of = "fetch_op_hash_data"
    /\ reply.r.ok
    /\ Len(reply.r.val) = 2
    /\ ReturnedErr

\* the key set the op-hash reply of agent a stands for
KeysOf(a) == {OpKey(h) : h \in HashesOf(a)}

\* C10: a failed op-hash query or a failed agent-info query never makes the
\* pass return an error: the failing agent has no keys, every other local
\* agent is still queried and its result recorded, and the pass goes on to
\* local_sync.
C10_BestEffortCollection ==
    /\ pc \in {"collect_local_ops", "await_op_hashes", "collect_local_agents",
               "await_agent_info", "local_sync"} => result.status = "running"
    /\ result.status = "Err" => reply.of \in {"fetch_op_hash_data", "gossip"}
    /\ pc = "collect_local_agents" =>
        /\ DOMAIN ops_reply = local_agents
        /\ requests["fetch_op_hashes_for_constraints"] = Cardinality(local_agents)
        /\ DOMAIN has_hash = {a \in local_agents : KeysOf(a) # {}}
        /\ \A a \in DOMAIN has_hash : has_hash[a] = KeysOf(a)
    /\ reply.of = "query_agent_info_signed" =>
        /\ pc = "local_sync"
        /\ ~reply.r.ok =>
            /\ data_map = EmptyMap
            /\ \A a \in DOMAIN has_hash : has_hash[a] = KeysOf(a)

\* both kinds of query failed and the pass went on with what another agent had
C10_Witness ==
    /\ pc = "local_sync"
    /\ reply.of = "query_agent_info_signed"
    /\ ~reply.r.ok
    /\ \E a \in local_agents : ~ops_reply[a].ok
    /\ \E a \in local_agents : ops_reply[a].ok /\ a \in DOMAIN has_hash

\* the pass is in local_sync
InLocalSync ==
    pc \in {"old_loop", "new_loop", "key_loop", "await_fetch", "await_gossip"}

\* C11: whatever the queries return, local_sync never finds an agent-info key
\* of one indexed agent absent from the working set of another, so neither
\* unreachable!() is executed.
C11_AgentInfoNeverMissing ==
    /\ pc \notin {"unreachable_local_sync", "unreachable_data_map_get"}
    /\ InLocalSync =>
        \A a \in DOMAIN has_hash : \A b \in DOMAIN new_has_map :
            \A k \in has_hash[a] : ~IsOpKey(k) => k \in new_has_map[b]

\* the inner loop has passed over an agent-info key of another agent's set
C11_Witness ==
    /\ pc = "key_loop"
    /\ old_key \in AgentKeys
    /\ old_key \in key_iter
    /\ Cardinality(DOMAIN has_hash) >= 2

Issued(kind) == requests[kind]
Pending(kind) == {req \in outstanding : req.kind = kind}

\* C12: the op-hash queries are all answered before the agent-info query is
\* issued, that query is answered before any fetch or delivery is issued, and
\* the digest is built after the last fetch or delivery is answered.
C12_StageOrdering ==
    /\ [](/\ Issued("query_agent_info_signed") > 0 =>
                /\ DOMAIN ops_reply = local_agents
                /\ Pending("fetch_op_hashes_for_constraints") = {}
          /\ Issued("fetch_op_hash_data") + Issued("gossip") > 0 =>
                /\ DOMAIN ops_reply = local_agents
                /\ Issued("query_agent_info_signed") = 1
                /\ Pending("fetch_op_hashes_for_constraints") = {}
                /\ Pending("query_agent_info_signed") = {}
          /\ result.status = "Ok" => outstanding = {})
    /\ [][/\ Issued("query_agent_info_signed") > 0 =>
                Issued("fetch_op_hashes_for_constraints")' =
                    Issued("fetch_op_hashes_for_constraints")
          /\ Issued("fetch_op_hash_data") + Issued("gossip") > 0 =>
                /\ Issued("fetch_op_hashes_for_constraints")' =
                       Issued("fetch_op_hashes_for_constraints")
                /\ Issued("query_agent_info_signed")' =
                       Issued("query_agent_info_signed")
          /\ result.status = "Ok" => requests' = requests]_vars

\* a digest built after all four kinds of request were made
C12_Witness ==
    /\ ReturnedOk
    /\ \A k \in Kinds : Issued(k) > 0

\* the pass is past collect_local_agents
PastCollection ==
    pc \notin {"collect_local_ops", "await_op_hashes", "collect_local_agents",
               "await_agent_info"}

\* C13: the agent-info store is queried once per pass when there is a local
\* agent and never when there is none, with a local agent as the anchor.
C13_AgentInfoQueriedOnce ==
    /\ Issued("query_agent_info_signed") <= 1
    /\ local_agents = {} => Issued("query_agent_info_signed") = 0
    /\ PastCollection /\ local_agents # {} => Issued("query_agent_info_signed") = 1
    /\ \A req \in Pending("query_agent_info_signed") : req.agent \in local_agents
    /\ reply.of = "query_agent_info_signed" => reply.req.agent \in local_agents

\* three local agents, one query answered
C13_Witness ==
    /\ Cardinality(local_agents) = 3
    /\ pc = "local_sync"
    /\ reply.of = "query_agent_info_signed"

\* the key of the i-th record of a reply of the agent-info query
InfoKey(infos, i) == DataKey(AgentData(infos[i]))

\* the first record of the reply that has the key of the i-th
FirstWithKey(infos, i) ==
    infos[CHOOSE j \in 1..i :
            /\ InfoKey(infos, j) = InfoKey(infos, i)
            /\ \A l \in 1..(j - 1) : InfoKey(infos, l) # InfoKey(infos, i)]

\* C14: once data_map maps a key to a record it maps the key to that record
\* from then on: across the steps of the pass, and within the loop over the
\* agent-info records, where the first record inserted under a key stays.
C14_NeverOverwritten ==
    [][/\ \A k \in DOMAIN data_map :
            k \in DOMAIN data_map' /\ data_map'[k] = data_map[k]
       /\ (reply'.of = "query_agent_info_signed" /\ reply'.r.ok) =>
            \A i \in DOMAIN reply'.r.val :
                data_map'[InfoKey(reply'.r.val, i)] =
                    AgentData(FirstWithKey(reply'.r.val, i))]_vars

\* the pairs of an indexed agent and a key it lacked when local_sync began
Needed ==
    {bk \in (DOMAIN pre_has) \X Union(pre_has) : bk[2] \notin pre_has[bk[1]]}

\* the deliveries requested with destination b and hash of key k
DeliveriesOf(b, k) == {d \in gossiped : d.to_agent = b /\ OpKey(d.op_hash) = k}

\* C15: on a successful pass gossip is called once for every indexed agent B
\* and key K that another indexed agent had and B had not, with destination B
\* and key K, and no other delivery is made.
C15_DeliveredExactlyOnce ==
    ReturnedOk =>
        /\ \A bk \in Needed : Cardinality(DeliveriesOf(bk[1], bk[2])) = 1
        /\ \A d \in gossiped : <<d.to_agent, OpKey(d.op_hash)>> \in Needed
        /\ Issued("gossip") = Cardinality(Needed)

\* C16: at most one request is outstanding at any time, and none when the pass
\* is not at an await.
C16_Sequential ==
    /\ Cardinality(outstanding) <= 1
    /\ pc \notin {"await_op_hashes", "await_agent_info", "await_fetch", "await_gossip"}
        => outstanding = {}

\* a delivery is awaited after requests of all four kinds were made
C16_Witness ==
    /\ pc = "await_gossip"
    /\ Cardinality(outstanding) = 1
    /\ \A k \in Kinds : Issued(k) > 0
    /\ Issued("gossip") >= 2

\* C17: when local_sync returns an error has_hash is what it was when
\* local_sync began: the insertions made in the working copy are not in it, and
\* the result carries no digest.
C17_NoPartialIndex ==
    /\ InLocalSync => has_hash = pre_has
    /\ ReturnedErr => has_hash = pre_has /\ DOMAIN result = {"status"}

\* the pass failed after the working copy had received a key
C17_Witness ==
    /\ ReturnedErr
    /\ new_has_map # has_hash

\* C18: every delivery names a source other than its destination, and the
\* source's set held the delivered key when local_sync began.
C18_SnapshotSources ==
    \A d \in gossiped :
        /\ d.from_agent # d.to_agent
        /\ OpKey(d.op_hash) \in pre_has[d.from_agent]

\* C19: the record of a key is in data_map before the key is delivered, a
\* fetch is addressed to the old agent, who holds the key, and all destinations
\* of a key are sent the payload data_map keeps for it.
C19_ResolvedBeforeDelivered ==
    /\ \A req \in Pending("fetch_op_hash_data") :
            req.agent = old_agent /\ OpKey(req.op_hashes[1]) \in pre_has[req.agent]
    /\ \A d \in gossiped : d.key \in DOMAIN data_map
    /\ \A d1, d2 \in gossiped :
            d1.op_hash = d2.op_hash => d1.op_data = d2.op_data

\* C20: the hash passed to gossip, and the key the fetched record is cached
\* under, is the key that was missing and is then marked present.
C20_DeliveredHashIsMissingKey ==
    \A d \in gossiped : OpKey(d.op_hash) = d.key /\ d.key \in DOMAIN data_map

\* C21: on a successful pass every key of the returned data map is in the
\* returned key set and is reported present by the returned filter.
C21_StoreCoveredByKeySet ==
    ReturnedOk =>
        \A k \in DOMAIN result.data_map :
            k \in result.key_set /\ BloomCheck(result.bloom, k)

\* all entries of the index hold the same key set
SetEqual(has) == \A a, b \in DOMAIN has : has[a] = has[b]

\* C24: local_sync begun on an index whose entries are set-equal issues no
\* fetch and no delivery, does not fail, and leaves the index and the data map
\* as they were.
C24_Idempotent ==
    /\ []((SetEqual(pre_has) /\ (InLocalSync \/ pc = "finish")) =>
            /\ Issued("fetch_op_hash_data") = 0
            /\ Issued("gossip") = 0
            /\ outstanding = {}
            /\ local_synced_ops = 0
            /\ has_hash = pre_has
            /\ new_has_map = pre_has
            /\ result.status = "running")
    /\ [][(SetEqual(pre_has) /\ InLocalSync) =>
            /\ data_map' = data_map
            /\ has_hash' = has_hash
            /\ requests' = requests
            /\ pc' \in {"old_loop", "new_loop", "key_loop", "finish"}]_vars

\* local_sync has gone through all pairs of three agents that hold the same
\* op keys and agent-info keys, and has returned
C24_Witness ==
    /\ pc = "finish"
    /\ SetEqual(pre_has)
    /\ Cardinality(DOMAIN pre_has) = 3
    /\ old_iter = DOMAIN pre_has
    /\ \E k \in Union(pre_has) : IsOpKey(k)
    /\ \E k \in Union(pre_has) : ~IsOpKey(k)

\* the keys of the records the agent-info query returned
InfoKeysReturned == {k \in DOMAIN data_map : ~IsOpKey(k)}

\* the index the answers of the two kinds of query determine
Collected ==
    [a \in {b \in local_agents : KeysOf(b) # {}} |-> KeysOf(a) \cup InfoKeysReturned]

\* the pairs of a delivered hash and its destination
DeliveredPairs == {<<OpKey(d.op_hash), d.to_agent>> : d \in gossiped}

\* C23: on a successful pass the returned key set and the set of delivered
\* (key, destination) pairs are determined by the answers of the queries alone:
\* in whatever order the agents and keys were iterated and whichever entry
\* finish took, the key set is the union of the collected sets and the pairs
\* are the keys each indexed agent lacked.
C23_OrderIndependent ==
    ReturnedOk =>
        /\ pre_has = Collected
        /\ result.key_set = Union(Collected)
        /\ DeliveredPairs = {<<bk[2], bk[1]>> : bk \in Needed}

\* C22: when every request is answered the pass returns, a digest or an
\* error, and at no time has it made more deliveries than the number of local
\* agents times the number of keys collected.
C22_Terminates ==
    /\ <>(ReturnedOk \/ ReturnedErr)
    /\ [](Issued("gossip") <= Cardinality(local_agents) * Cardinality(Union(pre_has)))

\* a pass of two agents has returned a digest after a fetch and a delivery
\* for each of them
C22_Witness ==
    /\ ReturnedOk
    /\ Cardinality(local_agents) = 2
    /\ Issued("fetch_op_hash_data") = 2
    /\ Issued("gossip") = 2

\* ---- properties of the admin interface -----------------------------------------
\* handle_incoming_message has returned for the last message of the task
Handled(t) == t.ret # "none"

IsRequest(t) == Len(t.msg) > 0 /\ t.msg[1] = "Request"

\* the API has answered the request of the task with an error response
ApiFailure(t) == IsRequest(t) /\ "ok" \in DOMAIN t.api /\ t.api.ok /\ IsErrorResponse(t.api.val)

\* respond is called at most once per message and with the API's response; a
\* Signal is not answered and returns Ok; a Close returns Closed
RespondDiscipline(t) ==
    /\ t.calls <= 1
    /\ t.calls = 1 =>
            IsRequest(t) /\ "ok" \in DOMAIN t.api /\ t.api.ok /\ t.sent = Serialize(t.api.val)
    /\ t.msg = SignalMsg => t.calls = 0 /\ t.ret = "Ok"
    /\ t.msg = CloseMsg => t.calls = 0 /\ t.ret = "Closed" /\ t.pc = "ended"

C26_ShutdownClosesAll ==
    ws_pc = "done" =>
        /\ ws_result = "Ok"
        /\ Range(close_requested) = Range(send_sockets)
        /\ {a[1] : a \in Range(awaited)} = Range(listener_handles)

====
